---- MODULE Spec2Model ----
(***************************************************************************)
(* KithabBackendS3: the notes-management backend.  The model covers the    *)
(* metadata store (Regulation, Branch, Subject, Note, Faculty), the S3     *)
(* bucket, and the request handlers of routes/notes.js and routes/admin.js *)
(* that create, read and delete Notes and that cascade-delete the          *)
(* hierarchy.  Every awaited call of a handler is one step, and every      *)
(* awaited call may reject.                                                *)
(***************************************************************************)
EXTENDS Integers, Sequences, FiniteSets, TLC

(* ------------------------------ universe ------------------------------ *)

RegIds == {"r1", "r2"}
BranchIds == {"b1", "b2"}
SubjIds == {"s1", "s2"}
FacIds == {"f1"}
BadId == "bad"

\* the ObjectIds that `new Note(...)` generates, in generation order, and the
\* fileKey the client uploaded for each
NoteIdSeq == <<"n1", "n2", "n3", "n4">>
KeySeq == <<"k1", "k2", "k3", "k4">>
\* and the originalName the client gave it, as its parts between the dots
OriginalNameSeq == << <<"A", "pdf">>, <<"B", "pdf">>, <<"A", "txt">>, <<"C">> >>

\* number of Note ids generated over a run
MaxNotes == 2
\* largest uploadedFiles array of one save-notes request
MaxFiles == 2

\* number of connection attempts connectWithRetry makes over a run
MaxAttempts == 3

\* number of Notes in the store when overlapping cascade deletes arrive
MaxSaved == 1

NoteIds == {NoteIdSeq[i] : i \in 1..MaxNotes}

\* the {regulation, branch, subject} triples a save-notes body carries: one
\* that agrees with the hierarchy and one that does not (nothing cross-checks)
NoteRefs ==
  { [regulation |-> "r1", branch |-> "b1", subject |-> "s1"],
    [regulation |-> "r2", branch |-> "b2", subject |-> "s2"] }

\* req.user as resolved by the auth collaborator
Users == { [id |-> "f1", role |-> "faculty"], [id |-> "a1", role |-> "admin"] }

\* the callers authMiddleware lets through to DELETE /notes/:id: the users
\* above and a faculty member who has uploaded nothing
Callers == Users \cup { [id |-> "f2", role |-> "faculty"] }

VARIABLES
  regulations,  \* Regulation collection: the ids present
  branches,     \* Branch collection: id -> [regulation]
  subjects,     \* Subject collection: id -> [branch]
  notes,        \* Note collection: id -> [title, regulation, branch, subject, fileKey, uploadedBy]
  faculties,    \* Faculty collection: id -> uploadedNotes (sequence of Note ids)
  bucket,       \* S3 bucket: the keys that hold an object
  nextId,       \* index in NoteIdSeq of the next Note id to generate
  session,      \* the handler's mongoose session: [state, ended]
  txn,          \* the collections as the open transaction sees them, and what it deleted
  pc,           \* position of the request in flight
  req,          \* the request: [route, user, id, body]
  loc,          \* handler locals: [noteQ, branchQ, subjQ, files, savedNotes, doc]
  res,          \* response sent: [status, body]; status 0 = none sent
  pre,          \* history: the stores when the request arrived
  log,          \* history: blob deletes issued and records removed, in order
  fault,        \* history: which awaited call of this request rejected first
  other,        \* the handler that waits on an await while this one runs
  conn          \* the database connection: [uri, attempts, pending, timers, connected]

vars == <<regulations, branches, subjects, notes, faculties, bucket, nextId,
          session, txn, pc, req, loc, res, pre, log, fault, other, conn>>

meta == <<regulations, branches, subjects, notes>>

(* ------------------------------ helpers ------------------------------- *)

EmptyMap == [x \in {} |-> x]

Restrict(f, S) == [x \in S |-> f[x]]

Remove(f, S) == [x \in DOMAIN f \ S |-> f[x]]

Put(f, k, v) == [x \in DOMAIN f \cup {k} |-> IF x = k THEN v ELSE f[x]]

Range(s) == {s[i] : i \in 1..Len(s)}

\* every order in which a query without a sort may return the set S
Orders(S) ==
  {s \in [1..Cardinality(S) -> S] : \A i, j \in 1..Cardinality(S) : i # j => s[i] # s[j]}

SeqRemove(s, x) == SelectSeq(s, LAMBDA y : y # x)

NoSession == [state |-> "none", ended |-> FALSE]
NoTxn ==
  [regulations |-> {}, branches |-> EmptyMap, subjects |-> EmptyMap, notes |-> EmptyMap,
   deleted |-> {}]
NoDoc == [id |-> "", fileKey |-> "", uploadedBy |-> ""]
NoLoc ==
  [noteQ |-> <<>>, branchQ |-> <<>>, subjQ |-> <<>>, files |-> <<>>,
   savedNotes |-> <<>>, doc |-> NoDoc]
NoRes == [status |-> 0, body |-> <<>>]
\* req.body.noteIds when the body has none
NoNoteIds == [given |-> FALSE, ids |-> {}]
NoBody ==
  [regulation |-> "", branch |-> "", subject |-> "", uploadedFiles |-> <<>>,
   noteIds |-> NoNoteIds]

NoReq == [route |-> "", user |-> [id |-> "", role |-> ""], id |-> "", body |-> NoBody]
NoPre ==
  [regulations |-> {}, branches |-> EmptyMap, subjects |-> EmptyMap,
   notes |-> EmptyMap, faculties |-> EmptyMap, bucket |-> {}]

Snapshot ==
  [regulations |-> regulations, branches |-> branches, subjects |-> subjects,
   notes |-> notes, faculties |-> faculties, bucket |-> bucket]

Committed ==
  [regulations |-> regulations, branches |-> branches, subjects |-> subjects, notes |-> notes]

\* a handler with no request: the server has nothing else in flight
IdleFrame ==
  [pc |-> "idle", req |-> NoReq, loc |-> NoLoc, res |-> NoRes, session |-> NoSession,
   txn |-> NoTxn, pre |-> NoPre, log |-> <<>>, fault |-> "none"]

\* the handler that is running
Frame ==
  [pc |-> pc, req |-> req, loc |-> loc, res |-> res, session |-> session,
   txn |-> txn, pre |-> pre, log |-> log, fault |-> fault]

InFlight(p) == p \notin {"idle", "done"}

\* the first operation of a transaction: it reads the collections as they are
\* committed at that moment, and so does every later operation of it
TxnSnapshot ==
  [regulations |-> regulations, branches |-> branches, subjects |-> subjects,
   notes |-> notes, deleted |-> {}]

CommittedIds == regulations \cup DOMAIN branches \cup DOMAIN subjects \cup DOMAIN notes

\* a write of a transaction to the documents `ids` meets a write conflict: one
\* of them was deleted after the transaction's snapshot, or is deleted by the
\* open transaction of the other handler
WriteConflict(ids) ==
  \E d \in ids :
    \/ d \notin CommittedIds
    \/ other.session.state = "active" /\ d \in other.txn.deleted

\* the write is rejected and the server aborts the transaction
Conflict(ids, catchPc) ==
  /\ WriteConflict(ids)
  /\ pc' = catchPc
  /\ fault' = IF fault = "none" THEN "conflict" ELSE fault
  /\ loc' = NoLoc
  /\ txn' = NoTxn
  /\ UNCHANGED <<res, log>>

Event(op, key) == [op |-> op, key |-> key]

(* --------------------- mongoose and S3 operations --------------------- *)

\* mongoose.Types.ObjectId.isValid
isValid(id) == id # BadId

\* Note.find({field: id}) on the collection ns
NoteFind(ns, field, id) == {n \in DOMAIN ns : ns[n][field] = id}

\* Note.deleteMany({field: id})
NoteDeleteMany(ns, field, id) == Remove(ns, NoteFind(ns, field, id))

\* Branch.find({regulation: id})
BranchFind(bs, id) == {b \in DOMAIN bs : bs[b].regulation = id}

\* Subject.find({branch: id})
SubjectFind(ss, id) == {s \in DOMAIN ss : ss[s].branch = id}

FileKeys(ns, S) == {ns[n].fileKey : n \in S}

\* s3.deleteObject({Key: fileKey}): on success the key holds no object,
\* whether or not it held one before
deleteS3Object(b, fileKey) == b \ {fileKey}

(* --------------------------- handler plumbing ------------------------- *)

Idle == pc = "idle"

\* a request reaches its handler
Arrive(route, user, id, body) ==
  /\ Idle
  /\ req' = [route |-> route, user |-> user, id |-> id, body |-> body]
  /\ pre' = Snapshot
  /\ log' = <<>>

\* control moves on to the await at p, the locals being l
Step(p, l) == pc' = p /\ loc' = l /\ UNCHANGED <<res, fault>>

Goto(p) == Step(p, loc)

\* res.status(status).json(body); the handler is over
Reply(status, body) ==
  /\ pc' = "done"
  /\ res' = [status |-> status, body |-> body]
  /\ loc' = NoLoc
  /\ UNCHANGED fault

\* an awaited call rejects: control moves to the catch block
Throw(kind, catchPc) ==
  /\ pc' = catchPc
  /\ fault' = IF fault = "none" THEN kind ELSE fault
  /\ loc' = NoLoc
  /\ UNCHANGED res

\* the handler's promise rejects outside any try block: nothing is sent
Unhandled(kind) ==
  /\ pc' = "done"
  /\ fault' = IF fault = "none" THEN kind ELSE fault
  /\ loc' = NoLoc
  /\ UNCHANGED res

\* adminMiddleware: anyone but an admin gets 403
adminMiddleware(user) == user.role = "admin"

(* ------------- steps shared by the three cascade handlers ------------- *)

\* const session = await mongoose.startSession(); session.startTransaction();
StartSessionStep(first) ==
  /\ res' = NoRes /\ loc' = NoLoc
  /\ \/ /\ session' = [state |-> "active", ended |-> FALSE]
        /\ txn' = NoTxn
        /\ pc' = first /\ fault' = "none"
     \/ /\ session' = NoSession /\ txn' = NoTxn
        /\ pc' = "done" /\ fault' = "session"
  /\ UNCHANGED <<meta, faculties, bucket, nextId, other, conn>>

\* const notes = await Note.find({field: id}).session(session)
FindNotesStep(here, field, id, loopPc, nextPc, catchPc) ==
  /\ pc = here
  /\ \/ \E q \in Orders(FileKeys(txn.notes, NoteFind(txn.notes, field, id))) :
          /\ Step(IF q = <<>> THEN nextPc ELSE loopPc,
                  [loc EXCEPT !.noteQ = q])
     \/ Throw("meta", catchPc)
  /\ UNCHANGED <<meta, faculties, bucket, nextId, other, conn, session, txn, req, pre, log>>

\* for (const note of notes) await deleteFile(note.fileKey): one iteration
DeleteFileStep(here, nextPc, catchPc) ==
  /\ pc = here
  /\ loc.noteQ # <<>>
  /\ log' = Append(log, Event("blob", Head(loc.noteQ)))
  /\ \/ /\ bucket' = deleteS3Object(bucket, Head(loc.noteQ))
        /\ Step(IF Tail(loc.noteQ) = <<>> THEN nextPc ELSE here,
                [loc EXCEPT !.noteQ = Tail(loc.noteQ)])
     \/ Throw("blob", catchPc) /\ UNCHANGED bucket
  /\ UNCHANGED <<meta, faculties, nextId, other, conn, session, txn, req, pre>>

\* await Note.deleteMany({field: id}).session(session)
DeleteNotesStep(here, field, id, nextLoc, nextPc, catchPc) ==
  /\ pc = here
  /\ \/ /\ ~WriteConflict(NoteFind(txn.notes, field, id))
        /\ txn' = [txn EXCEPT !.notes = NoteDeleteMany(txn.notes, field, id),
                           !.deleted = @ \cup NoteFind(txn.notes, field, id)]
        /\ log' = IF NoteFind(txn.notes, field, id) = {} THEN log
                  ELSE Append(log, Event("note", id))
        /\ Step(nextPc, nextLoc)
     \/ Throw("meta", catchPc) /\ UNCHANGED <<txn, log>>
     \/ Conflict(NoteFind(txn.notes, field, id), catchPc)
  /\ UNCHANGED <<meta, faculties, bucket, nextId, other, conn, session, req, pre>>

\* await session.commitTransaction(); session.endSession(); res.json(...)
CommitStep(here, catchPc) ==
  /\ pc = here
  /\ \/ /\ regulations' = regulations \ txn.deleted
        /\ branches' = Remove(branches, txn.deleted)
        /\ subjects' = Remove(subjects, txn.deleted)
        /\ notes' = Remove(notes, txn.deleted)
        /\ session' = [state |-> "committed", ended |-> TRUE]
        /\ txn' = NoTxn
        /\ log' = Append(log, Event("commit", req.id))
        /\ Reply(200, <<>>)
     \/ Throw("commit", catchPc) /\ UNCHANGED <<meta, session, txn, log>>
  /\ UNCHANGED <<faculties, bucket, nextId, other, conn, req, pre>>

\* catch (err) { await session.abortTransaction(); session.endSession();
\*               res.status(500).json(...) }
CatchStep(here) ==
  /\ pc = here
  /\ \/ /\ session' = [state |-> "aborted", ended |-> TRUE]
        /\ txn' = NoTxn
        /\ Reply(500, <<>>)
     \/ Unhandled("abort") /\ UNCHANGED <<session, txn>>
  /\ UNCHANGED <<meta, faculties, bucket, nextId, other, conn, req, pre, log>>

(* ------------------ DELETE /admin/regulations/:id --------------------- *)

DeleteRegulation(user, id) ==
  /\ adminMiddleware(user)
  /\ Arrive("DELETE /admin/regulations/:id", user, id, NoBody)
  /\ StartSessionStep("reg_findById")

\* the `if (!regulation) return 404` check left out
RegFindById_NoCheck ==
  /\ pc = "reg_findById"
  /\ \/ ~isValid(req.id) /\ Reply(400, <<>>) /\ UNCHANGED txn
     \/ isValid(req.id) /\ txn' = TxnSnapshot /\ Goto("reg_findNotes")
     \/ isValid(req.id) /\ Throw("meta", "reg_catch") /\ UNCHANGED txn
  /\ UNCHANGED <<meta, faculties, bucket, nextId, other, conn, session, req, pre, log>>

\* isValid(id), then await Regulation.findById(id).session(session)
RegFindById ==
  /\ pc = "reg_findById"
  /\ \/ ~isValid(req.id) /\ Reply(400, <<>>) /\ UNCHANGED txn
     \/ /\ isValid(req.id) /\ req.id \notin regulations
        /\ txn' = TxnSnapshot /\ Reply(404, <<>>)
     \/ /\ isValid(req.id) /\ req.id \in regulations
        /\ txn' = TxnSnapshot /\ Goto("reg_findNotes")
     \/ isValid(req.id) /\ Throw("meta", "reg_catch") /\ UNCHANGED txn
  /\ UNCHANGED <<meta, faculties, bucket, nextId, other, conn, session, req, pre, log>>

RegFindNotes ==
  FindNotesStep("reg_findNotes", "regulation", req.id,
                "reg_deleteFile", "reg_deleteNotes", "reg_catch")

RegDeleteFile == DeleteFileStep("reg_deleteFile", "reg_deleteNotes", "reg_catch")

\* Note.deleteMany({regulation: id}) left out of the cascade
RegDeleteNotes_Skipped ==
  /\ pc = "reg_deleteNotes"
  /\ Goto("reg_findBranches")
  /\ UNCHANGED <<meta, faculties, bucket, nextId, other, conn, session, txn, req, pre, log>>

RegDeleteNotes ==
  DeleteNotesStep("reg_deleteNotes", "regulation", req.id, loc,
                  "reg_findBranches", "reg_catch")

\* const branches = await Branch.find({regulation: id}).session(session)
RegFindBranches ==
  /\ pc = "reg_findBranches"
  /\ \/ \E q \in Orders(BranchFind(txn.branches, req.id)) :
          /\ Step(IF q = <<>> THEN "reg_deleteBranches"
                  ELSE "reg_findBranchNotes",
                  [loc EXCEPT !.branchQ = q])
     \/ Throw("meta", "reg_catch")
  /\ UNCHANGED <<meta, faculties, bucket, nextId, other, conn, session, txn, req, pre, log>>

RegFindBranchNotes ==
  /\ loc.branchQ # <<>>
  /\ FindNotesStep("reg_findBranchNotes", "branch", Head(loc.branchQ),
                   "reg_deleteBranchFile", "reg_deleteBranchNotes", "reg_catch")

RegDeleteBranchFile ==
  DeleteFileStep("reg_deleteBranchFile", "reg_deleteBranchNotes", "reg_catch")

RegDeleteBranchNotes ==
  /\ loc.branchQ # <<>>
  /\ DeleteNotesStep("reg_deleteBranchNotes", "branch", Head(loc.branchQ), loc,
                     "reg_findSubjects", "reg_catch")

\* const subjects = await Subject.find({branch: branch._id}).session(session)
RegFindSubjects ==
  /\ pc = "reg_findSubjects"
  /\ loc.branchQ # <<>>
  /\ \/ \E q \in Orders(SubjectFind(txn.subjects, Head(loc.branchQ))) :
          /\ Step(IF q = <<>> THEN "reg_deleteSubjects"
                  ELSE "reg_findSubjectNotes",
                  [loc EXCEPT !.subjQ = q])
     \/ Throw("meta", "reg_catch")
  /\ UNCHANGED <<meta, faculties, bucket, nextId, other, conn, session, txn, req, pre, log>>

RegFindSubjectNotes ==
  /\ loc.subjQ # <<>>
  /\ FindNotesStep("reg_findSubjectNotes", "subject", Head(loc.subjQ),
                   "reg_deleteSubjectFile", "reg_deleteSubjectNotes", "reg_catch")

RegDeleteSubjectFile ==
  DeleteFileStep("reg_deleteSubjectFile", "reg_deleteSubjectNotes", "reg_catch")

\* Note.deleteMany({subject: subject._id}); then the next subject, if any
RegDeleteSubjectNotes ==
  /\ loc.subjQ # <<>>
  /\ DeleteNotesStep("reg_deleteSubjectNotes", "subject", Head(loc.subjQ),
                     [loc EXCEPT !.subjQ = Tail(loc.subjQ)],
                     IF Tail(loc.subjQ) = <<>> THEN "reg_deleteSubjects"
                     ELSE "reg_findSubjectNotes",
                     "reg_catch")

\* await Subject.deleteMany({branch: branch._id}); then the next branch, if any
RegDeleteSubjects ==
  /\ pc = "reg_deleteSubjects"
  /\ loc.branchQ # <<>>
  /\ \/ /\ ~WriteConflict(SubjectFind(txn.subjects, Head(loc.branchQ)))
        /\ txn' = [txn EXCEPT !.subjects =
                     Remove(txn.subjects, SubjectFind(txn.subjects, Head(loc.branchQ))),
                   !.deleted = @ \cup SubjectFind(txn.subjects, Head(loc.branchQ))]
        /\ log' = IF SubjectFind(txn.subjects, Head(loc.branchQ)) = {} THEN log
                  ELSE Append(log, Event("subject", Head(loc.branchQ)))
        /\ Step(IF Tail(loc.branchQ) = <<>> THEN "reg_deleteBranches"
                ELSE "reg_findBranchNotes",
                [loc EXCEPT !.branchQ = Tail(loc.branchQ)])
     \/ Throw("meta", "reg_catch") /\ UNCHANGED <<txn, log>>
     \/ Conflict(SubjectFind(txn.subjects, Head(loc.branchQ)), "reg_catch")
  /\ UNCHANGED <<meta, faculties, bucket, nextId, other, conn, session, req, pre>>

\* await Branch.deleteMany({regulation: id}).session(session)
RegDeleteBranches ==
  /\ pc = "reg_deleteBranches"
  /\ \/ /\ ~WriteConflict(BranchFind(txn.branches, req.id))
        /\ txn' = [txn EXCEPT !.branches =
                     Remove(txn.branches, BranchFind(txn.branches, req.id)),
                   !.deleted = @ \cup BranchFind(txn.branches, req.id)]
        /\ log' = IF BranchFind(txn.branches, req.id) = {} THEN log
                  ELSE Append(log, Event("branch", req.id))
        /\ Goto("reg_deleteRegulation")
     \/ Throw("meta", "reg_catch") /\ UNCHANGED <<txn, log>>
     \/ Conflict(BranchFind(txn.branches, req.id), "reg_catch")
  /\ UNCHANGED <<meta, faculties, bucket, nextId, other, conn, session, req, pre>>

\* await Regulation.findByIdAndDelete(id).session(session)
RegDeleteRegulation ==
  /\ pc = "reg_deleteRegulation"
  /\ \/ /\ ~WriteConflict({req.id} \cap txn.regulations)
        /\ txn' = [txn EXCEPT !.regulations = txn.regulations \ {req.id},
                           !.deleted = @ \cup ({req.id} \cap txn.regulations)]
        /\ log' = Append(log, Event("regulation", req.id))
        /\ Goto("reg_commit")
     \/ Throw("meta", "reg_catch") /\ UNCHANGED <<txn, log>>
     \/ Conflict({req.id} \cap txn.regulations, "reg_catch")
  /\ UNCHANGED <<meta, faculties, bucket, nextId, other, conn, session, req, pre>>

RegCommit == CommitStep("reg_commit", "reg_catch")

RegCatch == CatchStep("reg_catch")

(* -------------------- DELETE /admin/branches/:id ---------------------- *)

DeleteBranch(user, id) ==
  /\ adminMiddleware(user)
  /\ Arrive("DELETE /admin/branches/:id", user, id, NoBody)
  /\ StartSessionStep("br_findById")

\* isValid(id), then await Branch.findById(id).session(session)
BrFindById ==
  /\ pc = "br_findById"
  /\ \/ ~isValid(req.id) /\ Reply(400, <<>>) /\ UNCHANGED txn
     \/ /\ isValid(req.id) /\ req.id \notin DOMAIN branches
        /\ txn' = TxnSnapshot /\ Reply(404, <<>>)
     \/ /\ isValid(req.id) /\ req.id \in DOMAIN branches
        /\ txn' = TxnSnapshot /\ Goto("br_findNotes")
     \/ isValid(req.id) /\ Throw("meta", "br_catch") /\ UNCHANGED txn
  /\ UNCHANGED <<meta, faculties, bucket, nextId, other, conn, session, req, pre, log>>

BrFindNotes ==
  FindNotesStep("br_findNotes", "branch", req.id,
                "br_deleteFile", "br_deleteNotes", "br_catch")

BrDeleteFile == DeleteFileStep("br_deleteFile", "br_deleteNotes", "br_catch")

BrDeleteNotes ==
  DeleteNotesStep("br_deleteNotes", "branch", req.id, loc,
                  "br_deleteSubjects", "br_catch")

\* await Subject.deleteMany({branch: id}).session(session)
BrDeleteSubjects ==
  /\ pc = "br_deleteSubjects"
  /\ \/ /\ ~WriteConflict(SubjectFind(txn.subjects, req.id))
        /\ txn' = [txn EXCEPT !.subjects =
                     Remove(txn.subjects, SubjectFind(txn.subjects, req.id)),
                   !.deleted = @ \cup SubjectFind(txn.subjects, req.id)]
        /\ log' = IF SubjectFind(txn.subjects, req.id) = {} THEN log
                  ELSE Append(log, Event("subject", req.id))
        /\ Goto("br_deleteBranch")
     \/ Throw("meta", "br_catch") /\ UNCHANGED <<txn, log>>
     \/ Conflict(SubjectFind(txn.subjects, req.id), "br_catch")
  /\ UNCHANGED <<meta, faculties, bucket, nextId, other, conn, session, req, pre>>

\* await Branch.findByIdAndDelete(id).session(session)
BrDeleteBranch ==
  /\ pc = "br_deleteBranch"
  /\ \/ /\ ~WriteConflict({req.id} \cap DOMAIN txn.branches)
        /\ txn' = [txn EXCEPT !.branches = Remove(txn.branches, {req.id}),
                           !.deleted = @ \cup ({req.id} \cap DOMAIN txn.branches)]
        /\ log' = Append(log, Event("branch", req.id))
        /\ Goto("br_commit")
     \/ Throw("meta", "br_catch") /\ UNCHANGED <<txn, log>>
     \/ Conflict({req.id} \cap DOMAIN txn.branches, "br_catch")
  /\ UNCHANGED <<meta, faculties, bucket, nextId, other, conn, session, req, pre>>

BrCommit == CommitStep("br_commit", "br_catch")

BrCatch == CatchStep("br_catch")

(* -------------------- DELETE /admin/subjects/:id ---------------------- *)

DeleteSubject(user, id) ==
  /\ adminMiddleware(user)
  /\ Arrive("DELETE /admin/subjects/:id", user, id, NoBody)
  /\ StartSessionStep("sub_findById")

\* isValid(id), then await Subject.findById(id).session(session)
SubFindById ==
  /\ pc = "sub_findById"
  /\ \/ ~isValid(req.id) /\ Reply(400, <<>>) /\ UNCHANGED txn
     \/ /\ isValid(req.id) /\ req.id \notin DOMAIN subjects
        /\ txn' = TxnSnapshot /\ Reply(404, <<>>)
     \/ /\ isValid(req.id) /\ req.id \in DOMAIN subjects
        /\ txn' = TxnSnapshot /\ Goto("sub_findNotes")
     \/ isValid(req.id) /\ Throw("meta", "sub_catch") /\ UNCHANGED txn
  /\ UNCHANGED <<meta, faculties, bucket, nextId, other, conn, session, req, pre, log>>

SubFindNotes ==
  FindNotesStep("sub_findNotes", "subject", req.id,
                "sub_deleteFile", "sub_deleteNotes", "sub_catch")

SubDeleteFile == DeleteFileStep("sub_deleteFile", "sub_deleteNotes", "sub_catch")

SubDeleteNotes ==
  DeleteNotesStep("sub_deleteNotes", "subject", req.id, loc,
                  "sub_deleteSubject", "sub_catch")

\* await Subject.findByIdAndDelete(id).session(session)
SubDeleteSubject ==
  /\ pc = "sub_deleteSubject"
  /\ \/ /\ ~WriteConflict({req.id} \cap DOMAIN txn.subjects)
        /\ txn' = [txn EXCEPT !.subjects = Remove(txn.subjects, {req.id}),
                           !.deleted = @ \cup ({req.id} \cap DOMAIN txn.subjects)]
        /\ log' = Append(log, Event("subject", req.id))
        /\ Goto("sub_commit")
     \/ Throw("meta", "sub_catch") /\ UNCHANGED <<txn, log>>
     \/ Conflict({req.id} \cap DOMAIN txn.subjects, "sub_catch")
  /\ UNCHANGED <<meta, faculties, bucket, nextId, other, conn, session, req, pre>>

SubCommit == CommitStep("sub_commit", "sub_catch")

SubCatch == CatchStep("sub_catch")

\* an admin route called by anyone but an admin
AdminDenied(user, route) ==
  /\ ~adminMiddleware(user)
  /\ Arrive(route, user, "", NoBody)
  /\ pc' = "done" /\ fault' = "none"
  /\ res' = [status |-> 403, body |-> <<>>]
  /\ loc' = NoLoc /\ session' = NoSession /\ txn' = NoTxn
  /\ UNCHANGED <<meta, faculties, bucket, nextId, other, conn>>

(* ------------------------ routes without a session -------------------- *)

\* the catch block of a route without a session: res.status(500).json(...)
Fail(kind) ==
  /\ pc' = "done"
  /\ fault' = IF fault = "none" THEN kind ELSE fault
  /\ res' = [status |-> 500, body |-> <<>>]
  /\ loc' = NoLoc

NoSessionStart == session' = NoSession /\ txn' = NoTxn

(* ------------------------ POST /notes/save-notes ---------------------- *)

\* the uploadedFiles of a request with n files: the fileKey each was uploaded
\* under, and the _id that `new Note` will generate for it
UploadedFiles(n) ==
  [i \in 1..n |-> [id |-> NoteIdSeq[nextId + i - 1], fileKey |-> KeySeq[nextId + i - 1],
                   originalName |-> OriginalNameSeq[nextId + i - 1]]]

\* file.originalName.replace(/\.[^/.]+$/, ""): the last extension is dropped
Title(originalName) ==
  IF Len(originalName) > 1 THEN SubSeq(originalName, 1, Len(originalName) - 1)
  ELSE originalName

\* the role check and the uploadedFiles check; the client has put every file
\* it lists under its presigned upload URL
SaveNotes(user, refs, n) ==
  /\ nextId + n - 1 <= MaxNotes
  /\ Arrive("POST /notes/save-notes", user, "",
            [regulation |-> refs.regulation, branch |-> refs.branch,
             subject |-> refs.subject, uploadedFiles |-> UploadedFiles(n),
             noteIds |-> NoNoteIds])
  /\ NoSessionStart
  /\ fault' = "none"
  /\ \/ /\ user.role # "faculty"
        /\ pc' = "done" /\ res' = [status |-> 403, body |-> <<>>]
        /\ loc' = NoLoc
        /\ UNCHANGED <<bucket, nextId>>
     \/ /\ user.role = "faculty" /\ n = 0
        /\ pc' = "done" /\ res' = [status |-> 400, body |-> <<>>]
        /\ loc' = NoLoc
        /\ UNCHANGED <<bucket, nextId>>
     \/ /\ user.role = "faculty" /\ n > 0
        /\ pc' = "save_noteSave" /\ res' = NoRes
        /\ loc' = [NoLoc EXCEPT !.files = UploadedFiles(n)]
        /\ bucket' = bucket \cup {KeySeq[nextId + i - 1] : i \in 1..n}
        /\ nextId' = nextId + n
  /\ UNCHANGED <<meta, faculties, other, conn>>

\* a failed save that also removes the Notes the request has saved so far
SaveNoteSave_AllOrNothing ==
  /\ pc = "save_noteSave"
  /\ loc.files # <<>>
  /\ \/ /\ notes' = Put(notes, Head(loc.files).id,
                        [title |-> Title(Head(loc.files).originalName),
                         regulation |-> req.body.regulation,
                         branch |-> req.body.branch,
                         subject |-> req.body.subject,
                         fileKey |-> Head(loc.files).fileKey,
                         uploadedBy |-> req.user.id])
        /\ Goto("save_push")
     \/ /\ Fail("save")
        /\ notes' = Remove(notes, Range(loc.savedNotes))
  /\ UNCHANGED <<regulations, branches, subjects, faculties, bucket, nextId, other, conn,
                 session, txn, req, pre, log>>

\* new Note({...}); const savedNote = await newNote.save()
SaveNoteSave ==
  /\ pc = "save_noteSave"
  /\ loc.files # <<>>
  /\ \/ /\ notes' = Put(notes, Head(loc.files).id,
                        [title |-> Title(Head(loc.files).originalName),
                         regulation |-> req.body.regulation,
                         branch |-> req.body.branch,
                         subject |-> req.body.subject,
                         fileKey |-> Head(loc.files).fileKey,
                         uploadedBy |-> req.user.id])
        /\ Goto("save_push")
     \/ Fail("save") /\ UNCHANGED notes
  /\ UNCHANGED <<regulations, branches, subjects, faculties, bucket, nextId, other, conn,
                 session, txn, req, pre, log>>

\* Faculty.findByIdAndUpdate(id, {$push: {uploadedNotes: noteId}}) on the collection fs
LedgerPush(fs, id, noteId) ==
  IF id \in DOMAIN fs THEN [fs EXCEPT ![id] = Append(@, noteId)] ELSE fs

\* Faculty.findByIdAndUpdate(id, {$pull: {uploadedNotes: noteId}})
LedgerPull(fs, id, noteId) ==
  IF id \in DOMAIN fs THEN [fs EXCEPT ![id] = SeqRemove(@, noteId)] ELSE fs

\* await Faculty.findByIdAndUpdate(req.user.id, {$push: ...});
\* savedNotes.push(...); then the next file, or res.status(201)
SavePush ==
  /\ pc = "save_push"
  /\ loc.files # <<>>
  /\ \/ /\ faculties' = LedgerPush(faculties, req.user.id, Head(loc.files).id)
        /\ IF Tail(loc.files) = <<>>
           THEN Reply(201, Append(loc.savedNotes, Head(loc.files).id))
           ELSE Step("save_noteSave",
                     [loc EXCEPT !.files = Tail(loc.files),
                                 !.savedNotes = Append(@, Head(loc.files).id)])
     \/ Fail("ledger") /\ UNCHANGED faculties
  /\ UNCHANGED <<meta, bucket, nextId, other, conn, session, txn, req, pre, log>>

(* --------------------------- DELETE /notes/:id ------------------------ *)

DocOf(ns, id) == [id |-> id, fileKey |-> ns[id].fileKey, uploadedBy |-> ns[id].uploadedBy]

\* const note = await Note.findById(noteId)
FacultyDeleteNote(user, id) ==
  /\ Arrive("DELETE /notes/:id", user, id, NoBody)
  /\ NoSessionStart
  /\ \/ /\ id \notin DOMAIN notes
        /\ pc' = "done" /\ res' = [status |-> 404, body |-> <<>>]
        /\ fault' = "none" /\ loc' = NoLoc
     \/ /\ id \in DOMAIN notes
        /\ pc' = "fdel_s3" /\ res' = NoRes
        /\ fault' = "none" /\ loc' = [NoLoc EXCEPT !.doc = DocOf(notes, id)]
     \/ /\ pc' = "done" /\ res' = [status |-> 500, body |-> <<>>]
        /\ fault' = "meta" /\ loc' = NoLoc
  /\ UNCHANGED <<meta, faculties, bucket, nextId, other, conn>>

\* if (note.fileKey) await deleteS3Object(note.fileKey)
FdelS3 ==
  /\ pc = "fdel_s3"
  /\ log' = Append(log, Event("blob", loc.doc.fileKey))
  /\ \/ /\ bucket' = deleteS3Object(bucket, loc.doc.fileKey)
        /\ Goto("fdel_pull")
     \/ Fail("blob") /\ UNCHANGED bucket
  /\ UNCHANGED <<meta, faculties, nextId, other, conn, session, txn, req, pre>>

\* await Faculty.findByIdAndUpdate(note.uploadedBy, {$pull: {uploadedNotes: note._id}})
FdelPull ==
  /\ pc = "fdel_pull"
  /\ \/ /\ faculties' = LedgerPull(faculties, loc.doc.uploadedBy, loc.doc.id)
        /\ Goto("fdel_deleteOne")
     \/ Fail("ledger") /\ UNCHANGED faculties
  /\ UNCHANGED <<meta, bucket, nextId, other, conn, session, txn, req, pre, log>>

\* await note.deleteOne(); res.json(...)
FdelDeleteOne ==
  /\ pc = "fdel_deleteOne"
  /\ \/ /\ notes' = Remove(notes, {loc.doc.id})
        /\ log' = Append(log, Event("note", loc.doc.id))
        /\ Reply(200, <<>>)
     \/ Fail("meta") /\ UNCHANGED <<notes, log>>
  /\ UNCHANGED <<regulations, branches, subjects, faculties, bucket, nextId, other, conn,
                 session, txn, req, pre>>

(* ------------------------ DELETE /admin/notes/:id --------------------- *)

\* const note = await Note.findById(req.params.id)
AdminDeleteNote(user, id) ==
  /\ adminMiddleware(user)
  /\ Arrive("DELETE /admin/notes/:id", user, id, NoBody)
  /\ NoSessionStart
  /\ \/ /\ id \notin DOMAIN notes
        /\ pc' = "done" /\ res' = [status |-> 404, body |-> <<>>]
        /\ fault' = "none" /\ loc' = NoLoc
     \/ /\ id \in DOMAIN notes
        /\ pc' = "adel_s3" /\ res' = NoRes
        /\ fault' = "none" /\ loc' = [NoLoc EXCEPT !.doc = DocOf(notes, id)]
     \/ /\ pc' = "done" /\ res' = [status |-> 500, body |-> <<>>]
        /\ fault' = "meta" /\ loc' = NoLoc
  /\ UNCHANGED <<meta, faculties, bucket, nextId, other, conn>>

\* await deleteFile(note.fileKey)
AdelS3 ==
  /\ pc = "adel_s3"
  /\ log' = Append(log, Event("blob", loc.doc.fileKey))
  /\ \/ /\ bucket' = deleteS3Object(bucket, loc.doc.fileKey)
        /\ Goto("adel_delete")
     \/ Fail("blob") /\ UNCHANGED bucket
  /\ UNCHANGED <<meta, faculties, nextId, other, conn, session, txn, req, pre>>

\* await Note.findByIdAndDelete(req.params.id); res.json(...)
AdelDelete ==
  /\ pc = "adel_delete"
  /\ \/ /\ notes' = Remove(notes, {req.id})
        /\ log' = Append(log, Event("note", req.id))
        /\ Reply(200, <<>>)
     \/ Fail("meta") /\ UNCHANGED <<notes, log>>
  /\ UNCHANGED <<regulations, branches, subjects, faculties, bucket, nextId, other, conn,
                 session, txn, req, pre>>

(* ------------------------------ ledger reads -------------------------- *)

\* position of a Note id in generation order: the order of createdAt
CreatedAt(n) == CHOOSE i \in 1..Len(NoteIdSeq) : NoteIdSeq[i] = n

RECURSIVE InsertDesc(_, _)
InsertDesc(s, n) ==
  IF s = <<>> THEN <<n>>
  ELSE IF CreatedAt(n) >= CreatedAt(Head(s)) THEN <<n>> \o s
  ELSE <<Head(s)>> \o InsertDesc(Tail(s), n)

\* options: {sort: {createdAt: -1}}
RECURSIVE SortCreatedAtDesc(_)
SortCreatedAtDesc(s) ==
  IF s = <<>> THEN <<>> ELSE InsertDesc(SortCreatedAtDesc(Tail(s)), Head(s))

\* populate that keeps the ids whose document is not found
PopulateUploadedNotes_KeepMissing(uploadedNotes, ns) == uploadedNotes

\* populate({path: "uploadedNotes"}): each id of the list is replaced by its
\* Note document, and an id whose document is not found is dropped
PopulateUploadedNotes(uploadedNotes, ns) ==
  SelectSeq(uploadedNotes, LAMBDA n : n \in DOMAIN ns)

\* GET /notes/my-uploads: Faculty.findById(req.user.id).populate(...)
MyUploads(user) ==
  /\ Arrive("GET /notes/my-uploads", user, "", NoBody)
  /\ NoSessionStart
  /\ UNCHANGED <<meta, faculties, bucket, nextId, other, conn>>
  /\ \/ /\ user.id \notin DOMAIN faculties
        /\ pc' = "done" /\ res' = [status |-> 404, body |-> <<>>]
        /\ fault' = "none" /\ loc' = NoLoc
     \/ /\ user.id \in DOMAIN faculties
        /\ pc' = "my_urls" /\ res' = NoRes
        /\ fault' = "none"
        /\ loc' = [NoLoc EXCEPT !.savedNotes =
                     SortCreatedAtDesc(PopulateUploadedNotes(faculties[user.id], notes))]
     \/ /\ pc' = "done" /\ res' = [status |-> 500, body |-> <<>>]
        /\ fault' = "meta" /\ loc' = NoLoc

\* Promise.all(faculty.uploadedNotes.map(... getDownloadURL(note.fileKey) ...));
\* res.json(notesWithUrl)
MyUrls ==
  /\ pc = "my_urls"
  /\ \/ Reply(200, loc.savedNotes)
     \/ loc.savedNotes # <<>> /\ Fail("url")
  /\ UNCHANGED <<meta, faculties, bucket, nextId, other, conn, session, txn, req, pre, log>>

\* GET /admin/faculty/:id/uploads
FacultyUploads(user, id) ==
  /\ adminMiddleware(user)
  /\ Arrive("GET /admin/faculty/:id/uploads", user, id, NoBody)
  /\ NoSessionStart
  /\ pc' = "done" /\ loc' = NoLoc
  /\ UNCHANGED <<meta, faculties, bucket, nextId, other, conn>>
  /\ \/ ~isValid(id) /\ res' = [status |-> 400, body |-> <<>>] /\ fault' = "none"
     \/ /\ isValid(id) /\ id \notin DOMAIN faculties
        /\ res' = [status |-> 404, body |-> <<>>] /\ fault' = "none"
     \/ /\ isValid(id) /\ id \in DOMAIN faculties
        /\ res' = [status |-> 200, body |-> PopulateUploadedNotes(faculties[id], notes)]
        /\ fault' = "none"
     \/ isValid(id) /\ res' = [status |-> 500, body |-> <<>>] /\ fault' = "meta"

(* ---------------------- DELETE /admin/faculty/:id --------------------- *)

\* a faculty delete that also removes the Notes the Faculty uploaded
DeleteFaculty_Cascade(user, id) ==
  /\ adminMiddleware(user)
  /\ Arrive("DELETE /admin/faculty/:id", user, id, NoBody)
  /\ NoSessionStart
  /\ pc' = "done" /\ loc' = NoLoc
  /\ UNCHANGED <<regulations, branches, subjects, bucket, nextId, other, conn>>
  /\ \/ /\ ~isValid(id)
        /\ res' = [status |-> 400, body |-> <<>>] /\ fault' = "none"
        /\ UNCHANGED <<faculties, notes>>
     \/ /\ isValid(id) /\ id \notin DOMAIN faculties
        /\ res' = [status |-> 404, body |-> <<>>] /\ fault' = "none"
        /\ UNCHANGED <<faculties, notes>>
     \/ /\ isValid(id) /\ id \in DOMAIN faculties
        /\ res' = [status |-> 200, body |-> <<>>] /\ fault' = "none"
        /\ faculties' = Remove(faculties, {id})
        /\ notes' = NoteDeleteMany(notes, "uploadedBy", id)
     \/ /\ isValid(id)
        /\ res' = [status |-> 500, body |-> <<>>] /\ fault' = "meta"
        /\ UNCHANGED <<faculties, notes>>

\* isValid(id), then await Faculty.findByIdAndDelete(id)
DeleteFaculty(user, id) ==
  /\ adminMiddleware(user)
  /\ Arrive("DELETE /admin/faculty/:id", user, id, NoBody)
  /\ NoSessionStart
  /\ pc' = "done" /\ loc' = NoLoc
  /\ UNCHANGED <<meta, bucket, nextId, other, conn>>
  /\ \/ /\ ~isValid(id)
        /\ res' = [status |-> 400, body |-> <<>>] /\ fault' = "none"
        /\ UNCHANGED faculties
     \/ /\ isValid(id) /\ id \notin DOMAIN faculties
        /\ res' = [status |-> 404, body |-> <<>>] /\ fault' = "none"
        /\ UNCHANGED faculties
     \/ /\ isValid(id) /\ id \in DOMAIN faculties
        /\ res' = [status |-> 200, body |-> <<>>] /\ fault' = "none"
        /\ faculties' = Remove(faculties, {id})
     \/ /\ isValid(id)
        /\ res' = [status |-> 500, body |-> <<>>] /\ fault' = "meta"
        /\ UNCHANGED faculties

(* ----------------------- PUT /admin/subjects/:id ----------------------- *)

\* isValid(id), then await Subject.findByIdAndUpdate(id, req.body, {new: true})
\* with a body that sets `branch`: the new reference is stored as given
PutSubject(user, id, branch) ==
  /\ adminMiddleware(user)
  /\ Arrive("PUT /admin/subjects/:id", user, id, [NoBody EXCEPT !.branch = branch])
  /\ NoSessionStart
  /\ pc' = "done" /\ loc' = NoLoc
  /\ UNCHANGED <<regulations, branches, notes, faculties, bucket, nextId, other, conn>>
  /\ \/ /\ ~isValid(id)
        /\ res' = [status |-> 400, body |-> <<>>] /\ fault' = "none"
        /\ UNCHANGED subjects
     \/ /\ isValid(id) /\ id \notin DOMAIN subjects
        /\ res' = [status |-> 404, body |-> <<>>] /\ fault' = "none"
        /\ UNCHANGED subjects
     \/ /\ isValid(id) /\ id \in DOMAIN subjects
        /\ res' = [status |-> 200, body |-> <<>>] /\ fault' = "none"
        /\ subjects' = [subjects EXCEPT ![id] = [branch |-> branch]]
     \/ /\ isValid(id)
        /\ res' = [status |-> 500, body |-> <<>>] /\ fault' = "meta"
        /\ UNCHANGED subjects

(* ----------------------- POST /notes/download-zip --------------------- *)

\* the noteIds a request body may carry: none, or an array of ids that are
\* well-formed or not
NoteIdInputs ==
  {NoNoteIds} \cup {[given |-> TRUE, ids |-> S] : S \in SUBSET (NoteIds \cup {BadId})}

\* a query that finds nothing unless every id resolves
NoteFindIn_AllOrNone(ns, ids) == IF ids \subseteq DOMAIN ns THEN ids ELSE {}

\* Note.find({_id: {$in: ids}}) on the collection ns
NoteFindIn(ns, ids) == DOMAIN ns \cap ids

\* the bytes of the object stored under a key
Bytes(fileKey) == <<"bytes", fileKey>>

\* the body S3 sends with its 404 when the key holds no object
ErrorBody == <<"NoSuchKey">>

\* fetch(fileUrl) then response.arrayBuffer(): fetch resolves whatever the
\* status of the answer, and the status is not looked at
ResponseBody(b, fileKey) == IF fileKey \in b THEN Bytes(fileKey) ELSE ErrorBody

\* an entry named by the title alone
EntryName_NoExtension(title) == title

\* note.title + ".pdf"
EntryName(title) == Append(title, "pdf")

\* one element of filesData: null for a Note without fileKey
FileData(ns, b, n) ==
  IF ns[n].fileKey = "" THEN <<>>
  ELSE << [name |-> EntryName(ns[n].title), buffer |-> ResponseBody(b, ns[n].fileKey)] >>

\* filesData, in the order of `notes`, the nulls left out
RECURSIVE FilesData(_, _, _)
FilesData(ns, b, q) ==
  IF q = <<>> THEN <<>> ELSE FileData(ns, b, Head(q)) \o FilesData(ns, b, Tail(q))

\* the place in filesData of a mapper that has not ended, and of one that has
Pending == [settled |-> FALSE, data |-> <<>>]

Fetched(data) == [settled |-> TRUE, data |-> data]

\* the array Promise.all resolves to: the results by place, the nulls left out
RECURSIVE Settled(_)
Settled(fs) == IF fs = <<>> THEN <<>> ELSE Head(fs).data \o Settled(Tail(fs))

\* zip.file(f.name, f.buffer): an entry of that name is replaced
ZipFile(zip, f) == Put(zip, f.name, f.buffer)

\* filesData.forEach((f) => f && zip.file(f.name, Buffer.from(f.buffer)))
RECURSIVE ZipAll(_, _)
ZipAll(zip, fs) == IF fs = <<>> THEN zip ELSE ZipAll(ZipFile(zip, Head(fs)), Tail(fs))

\* the noteIds check, then const notes = await Note.find({_id: {$in: noteIds}});
\* a malformed id makes the query reject
DownloadZip(user, noteIds) ==
  /\ Arrive("POST /notes/download-zip", user, "", [NoBody EXCEPT !.noteIds = noteIds])
  /\ NoSessionStart
  /\ UNCHANGED <<meta, faculties, bucket, nextId, other, conn>>
  /\ \/ /\ ~noteIds.given \/ noteIds.ids = {}
        /\ pc' = "done" /\ res' = [status |-> 400, body |-> <<>>]
        /\ fault' = "none" /\ loc' = NoLoc
     \/ /\ noteIds.given /\ noteIds.ids # {}
        /\ \A id \in noteIds.ids : isValid(id)
        /\ NoteFindIn(notes, noteIds.ids) = {}
        /\ pc' = "done" /\ res' = [status |-> 404, body |-> <<>>]
        /\ fault' = "none" /\ loc' = NoLoc
     \/ /\ noteIds.given /\ noteIds.ids # {}
        /\ \A id \in noteIds.ids : isValid(id)
        /\ NoteFindIn(notes, noteIds.ids) # {}
        /\ \E q \in Orders(NoteFindIn(notes, noteIds.ids)) :
             loc' = [NoLoc EXCEPT !.noteQ = q, !.files = [i \in 1..Len(q) |-> Pending]]
        /\ pc' = "zip_fetch" /\ res' = NoRes /\ fault' = "none"
     \/ /\ noteIds.given /\ noteIds.ids # {}
        /\ pc' = "done" /\ res' = [status |-> 500, body |-> <<>>]
        /\ fault' = IF \A id \in noteIds.ids : isValid(id) THEN "meta" ELSE "cast"
        /\ loc' = NoLoc

\* filesData that takes the results in the order in which the fetches end
ZipFetch_CompletionOrder ==
  /\ pc = "zip_fetch"
  /\ \E i \in 1..Len(loc.noteQ) :
       /\ loc.files[i] = Pending
       /\ \/ LET fs == [loc.files EXCEPT ![i] = Fetched(<<>>)]
                  got == loc.savedNotes \o FileData(notes, bucket, loc.noteQ[i])
              IN /\ log' = Append(log, Event("fetch", loc.noteQ[i]))
                 /\ IF \A j \in 1..Len(fs) : fs[j] # Pending
                    THEN Step("zip_generate", [loc EXCEPT !.files = got, !.savedNotes = <<>>])
                    ELSE Step("zip_fetch", [loc EXCEPT !.files = fs, !.savedNotes = got])
          \/ notes[loc.noteQ[i]].fileKey # "" /\ Fail("fetch") /\ UNCHANGED log
  /\ UNCHANGED <<meta, faculties, bucket, nextId, other, conn, session, txn, req, pre>>

\* const filesData = await Promise.all(notes.map(...)): the mapper of one
\* Note ends, its download URL signed and its fetch resolved, and its result
\* goes to the place of that Note in filesData; or one of its calls rejects.
\* When the last mapper has ended Promise.all resolves
ZipFetch ==
  /\ pc = "zip_fetch"
  /\ \E i \in 1..Len(loc.noteQ) :
       /\ loc.files[i] = Pending
       /\ \/ LET fs == [loc.files EXCEPT
                          ![i] = Fetched(FileData(notes, bucket, loc.noteQ[i]))]
              IN /\ log' = Append(log, Event("fetch", loc.noteQ[i]))
                 /\ IF \A j \in 1..Len(fs) : fs[j] # Pending
                    THEN Step("zip_generate", [loc EXCEPT !.files = Settled(fs)])
                    ELSE Step("zip_fetch", [loc EXCEPT !.files = fs])
          \/ notes[loc.noteQ[i]].fileKey # "" /\ Fail("fetch") /\ UNCHANGED log
  /\ UNCHANGED <<meta, faculties, bucket, nextId, other, conn, session, txn, req, pre>>

\* the zip.file calls; const zipBuffer = await zip.generateAsync(...);
\* res.set(...); res.send(zipBuffer)
ZipGenerate ==
  /\ pc = "zip_generate"
  /\ \/ Reply(200, ZipAll(EmptyMap, loc.files))
     \/ Fail("zip")
  /\ UNCHANGED <<meta, faculties, bucket, nextId, other, conn, session, txn, req, pre, log>>

(* --------------------- server.js: connectWithRetry ------------------- *)

\* the connection when the process starts: process.env.MONGO_URI is defined
\* or not, and nothing has been attempted
NoConn(uri) ==
  [uri |-> uri, attempts |-> 0, pending |-> 0, timers |-> 0, connected |-> FALSE]

\* one call of connectWithRetry on the connection c: without MONGO_URI it
\* logs and returns, otherwise mongoose.connect(...) is called
connectWithRetry(c) ==
  IF ~c.uri THEN c
  ELSE [c EXCEPT !.attempts = @ + 1, !.pending = @ + 1]

\* the connection of a server that connected at its first attempt
FirstTry == [connectWithRetry(NoConn(TRUE)) EXCEPT !.pending = 0, !.connected = TRUE]

\* .then(() => console.log("MongoDB Connected"))
ConnectResolves ==
  /\ conn.pending > 0
  /\ conn' = [conn EXCEPT !.pending = @ - 1, !.connected = TRUE]
  /\ UNCHANGED <<meta, faculties, bucket, nextId, other, session, txn, pc, req, loc,
                 res, pre, log, fault>>

\* a rejected attempt that arms the timer twice
ConnectRejects_Twice ==
  /\ conn.pending > 0
  /\ conn' = [conn EXCEPT !.pending = @ - 1, !.timers = @ + 2]
  /\ UNCHANGED <<meta, faculties, bucket, nextId, other, session, txn, pc, req, loc,
                 res, pre, log, fault>>

\* .catch((err) => { console.error(...); setTimeout(connectWithRetry, 5000); })
ConnectRejects ==
  /\ conn.pending > 0
  /\ conn' = [conn EXCEPT !.pending = @ - 1, !.timers = @ + 1]
  /\ UNCHANGED <<meta, faculties, bucket, nextId, other, session, txn, pc, req, loc,
                 res, pre, log, fault>>

\* the 5000 ms are over: the timer calls connectWithRetry
RetryTimerFires ==
  /\ conn.timers > 0
  /\ conn.attempts < MaxAttempts
  /\ conn' = connectWithRetry([conn EXCEPT !.timers = @ - 1])
  /\ UNCHANGED <<meta, faculties, bucket, nextId, other, session, txn, pc, req, loc,
                 res, pre, log, fault>>

\* a model operation awaited before the connection is up stays in mongoose's
\* buffer, and rejects when the buffer timeout is over
BufferTimeout ==
  /\ ~conn.connected
  /\ pc \in {"save_noteSave", "save_push"}
  /\ Fail("buffer")
  /\ UNCHANGED <<meta, faculties, bucket, nextId, other, conn, session, txn, req, pre, log>>

(* ------------------------------ the system ---------------------------- *)

AdminRoutes ==
  { "DELETE /admin/regulations/:id", "DELETE /admin/branches/:id",
    "DELETE /admin/subjects/:id", "DELETE /admin/notes/:id",
    "DELETE /admin/faculty/:id", "GET /admin/faculty/:id/uploads" }

CascadeRoutes ==
  { "DELETE /admin/regulations/:id", "DELETE /admin/branches/:id",
    "DELETE /admin/subjects/:id" }

HierarchyRoutes == { "PUT /admin/subjects/:id", "DELETE /admin/branches/:id" }

\* the store an administrator has set up: regulation r1 with branches b1 and
\* b2 and one subject in each, one faculty member, no notes yet; r2 is the id
\* of a regulation that no longer exists
Init ==
  /\ regulations = {"r1"}
  /\ branches = [b \in BranchIds |-> [regulation |-> "r1"]]
  /\ subjects = [s \in SubjIds |-> [branch |-> IF s = "s1" THEN "b1" ELSE "b2"]]
  /\ notes = EmptyMap
  /\ faculties = [f \in FacIds |-> <<>>]
  /\ bucket = {}
  /\ nextId = 1
  /\ session = NoSession
  /\ txn = NoTxn
  /\ pc = "idle"
  /\ req = NoReq
  /\ loc = NoLoc
  /\ res = NoRes
  /\ pre = NoPre
  /\ log = <<>>
  /\ fault = "none"
  /\ other = IdleFrame
  /\ conn = FirstTry

\* the handlers have returned: their locals are gone and the server takes
\* the next request
Return ==
  /\ pc = "done"
  /\ ~InFlight(other.pc)
  /\ pc' = "idle"
  /\ req' = NoReq /\ loc' = NoLoc /\ res' = NoRes /\ pre' = NoPre
  /\ log' = <<>> /\ fault' = "none"
  /\ session' = NoSession /\ txn' = NoTxn
  /\ other' = IdleFrame
  /\ UNCHANGED <<meta, faculties, bucket, nextId, conn>>

\* the running handler waits on its await and the event loop resumes the
\* other one, or takes a second request while the first one waits
Switch ==
  /\ \/ InFlight(pc) /\ other.pc # "done"
     \/ pc = "done" /\ InFlight(other.pc)
     \/ pc = "idle" /\ InFlight(other.pc)
  /\ other' = Frame
  /\ pc' = other.pc /\ req' = other.req /\ loc' = other.loc /\ res' = other.res
  /\ session' = other.session /\ txn' = other.txn /\ pre' = other.pre
  /\ log' = other.log /\ fault' = other.fault
  /\ UNCHANGED <<meta, faculties, bucket, nextId, conn>>

SaveSteps ==
  \/ \E u \in Users, refs \in NoteRefs, n \in 0..MaxFiles : SaveNotes(u, refs, n)
  \/ SaveNoteSave \/ SavePush

RegulationSteps ==
  \/ \E u \in Users, id \in RegIds \cup {BadId} : DeleteRegulation(u, id)
  \/ RegFindById \/ RegFindNotes \/ RegDeleteFile \/ RegDeleteNotes
  \/ RegFindBranches \/ RegFindBranchNotes \/ RegDeleteBranchFile
  \/ RegDeleteBranchNotes \/ RegFindSubjects \/ RegFindSubjectNotes
  \/ RegDeleteSubjectFile \/ RegDeleteSubjectNotes \/ RegDeleteSubjects
  \/ RegDeleteBranches \/ RegDeleteRegulation \/ RegCommit \/ RegCatch

BranchSteps ==
  \/ \E u \in Users, id \in BranchIds \cup {BadId} : DeleteBranch(u, id)
  \/ BrFindById \/ BrFindNotes \/ BrDeleteFile \/ BrDeleteNotes
  \/ BrDeleteSubjects \/ BrDeleteBranch \/ BrCommit \/ BrCatch

SubjectSteps ==
  \/ \E u \in Users, id \in SubjIds \cup {BadId} : DeleteSubject(u, id)
  \/ SubFindById \/ SubFindNotes \/ SubDeleteFile \/ SubDeleteNotes
  \/ SubDeleteSubject \/ SubCommit \/ SubCatch

NoteDeleteSteps ==
  \/ \E u \in Callers, id \in NoteIds : FacultyDeleteNote(u, id)
  \/ FdelS3 \/ FdelPull \/ FdelDeleteOne
  \/ \E u \in Users, id \in NoteIds : AdminDeleteNote(u, id)
  \/ AdelS3 \/ AdelDelete

LedgerReadSteps ==
  \/ \E u \in Users : MyUploads(u)
  \/ MyUrls
  \/ \E u \in Users, id \in FacIds \cup {BadId} : FacultyUploads(u, id)

FacultySteps ==
  \E u \in Users, id \in FacIds \cup {BadId} : DeleteFaculty(u, id)

ArchiveSteps ==
  \/ \E u \in Callers, ids \in NoteIdInputs : DownloadZip(u, ids)
  \/ ZipFetch \/ ZipGenerate

FacultyNoteDeleteSteps ==
  \/ \E u \in Callers, id \in NoteIds : FacultyDeleteNote(u, id)
  \/ FdelS3 \/ FdelPull \/ FdelDeleteOne

SubjectUpdateSteps ==
  \E u \in Users, id \in SubjIds \cup {BadId}, b \in BranchIds : PutSubject(u, id, b)

\* every route, one request at a time
Next ==
  \/ SaveSteps
  \/ SubjectUpdateSteps
  \/ ArchiveSteps
  \/ RegulationSteps \/ BranchSteps \/ SubjectSteps
  \/ NoteDeleteSteps \/ LedgerReadSteps \/ FacultySteps
  \/ \E u \in Users, r \in AdminRoutes \cup HierarchyRoutes : AdminDenied(u, r)
  \/ Return

Spec == Init /\ [][Next]_vars

\* the Cascade Deletion Engine: Notes are saved, and the hierarchy is
\* cascade-deleted
CascadeNext ==
  \/ SaveSteps
  \/ RegulationSteps \/ BranchSteps \/ SubjectSteps
  \/ \E u \in Users, r \in CascadeRoutes : AdminDenied(u, r)
  \/ Return

CascadeSpec == Init /\ [][CascadeNext]_vars

\* the Faculty Upload Ledger: Notes are saved, deleted one by one and listed,
\* and Faculty records are deleted
LedgerNext ==
  \/ SaveSteps
  \/ NoteDeleteSteps \/ LedgerReadSteps \/ FacultySteps
  \/ \E u \in Users, r \in AdminRoutes \ CascadeRoutes : AdminDenied(u, r)
  \/ Return

LedgerSpec == Init /\ [][LedgerNext]_vars

\* the hierarchy under maintenance: Notes are saved, Subjects are moved from
\* one Branch to another, and Branches are cascade-deleted
HierarchyNext ==
  \/ SaveSteps
  \/ SubjectUpdateSteps
  \/ BranchSteps
  \/ \E u \in Users, r \in HierarchyRoutes : AdminDenied(u, r)
  \/ Return

HierarchySpec == Init /\ [][HierarchyNext]_vars

\* the Archive Assembly Engine: Notes are saved, deleted one by one through
\* the faculty route, and downloaded as an archive
ArchiveNext ==
  \/ SaveSteps
  \/ FacultyNoteDeleteSteps
  \/ ArchiveSteps
  \/ Return

ArchiveSpec == Init /\ [][ArchiveNext]_vars

\* the Note that a successful save-notes leaves for its i-th generated id
SavedNote(i, refs) ==
  [title |-> Title(OriginalNameSeq[i]), regulation |-> refs.regulation,
   branch |-> refs.branch, subject |-> refs.subject, fileKey |-> KeySeq[i],
   uploadedBy |-> "f1"]

\* the store after faculty f1 has saved k Notes, one file per request, each
\* request with one of the reference triples
Populated(k, refs) ==
  /\ regulations = {"r1"}
  /\ branches = [b \in BranchIds |-> [regulation |-> "r1"]]
  /\ subjects = [s \in SubjIds |-> [branch |-> IF s = "s1" THEN "b1" ELSE "b2"]]
  /\ notes = [n \in {NoteIdSeq[i] : i \in 1..k} |-> SavedNote(CreatedAt(n), refs[CreatedAt(n)])]
  /\ faculties = [f \in FacIds |-> [i \in 1..k |-> NoteIdSeq[i]]]
  /\ bucket = {KeySeq[i] : i \in 1..k}
  /\ nextId = k + 1

OverlapInit ==
  /\ \E k \in 0..MaxSaved : \E refs \in [1..k -> NoteRefs] : Populated(k, refs)
  /\ session = NoSession
  /\ txn = NoTxn
  /\ pc = "idle"
  /\ req = NoReq
  /\ loc = NoLoc
  /\ res = NoRes
  /\ pre = NoPre
  /\ log = <<>>
  /\ fault = "none"
  /\ other = IdleFrame
  /\ conn = FirstTry

\* a Regulation delete overlaps with a Branch delete, and a Branch delete with
\* a Subject delete
OverlapRegulation ==
  /\ other.req.route \in {"", "DELETE /admin/branches/:id"}
  /\ RegulationSteps

OverlapBranch ==
  /\ other.req.route \in {"", "DELETE /admin/regulations/:id", "DELETE /admin/subjects/:id"}
  /\ BranchSteps

OverlapSubject ==
  /\ other.req.route \in {"", "DELETE /admin/branches/:id"}
  /\ SubjectSteps

\* cascade deletes that overlap: while a cascade handler waits on an await the
\* server takes a second cascade delete, and the two advance in any order
OverlapNext ==
  \/ OverlapRegulation \/ OverlapBranch \/ OverlapSubject
  \/ Switch
  \/ Return

OverlapSpec == OverlapInit /\ [][OverlapNext]_vars

\* a cascade delete races with save-notes
RaceSave ==
  /\ other.req.route \in {""} \cup CascadeRoutes
  /\ SaveSteps

RaceCascade ==
  /\ other.req.route \in {"", "POST /notes/save-notes"}
  /\ RegulationSteps \/ BranchSteps \/ SubjectSteps

\* save-notes and cascade deletes: while one handler waits on an await the
\* server takes a request of the other kind, and the two advance in any order
SaveRaceNext ==
  \/ RaceSave \/ RaceCascade
  \/ Switch
  \/ Return

SaveRaceSpec == Init /\ [][SaveRaceNext]_vars

\* the originalName a client may give a file: two of them give the same title
ShelfNames == { <<"A", "pdf">>, <<"A", "txt">>, <<"B", "pdf">> }

\* the store after k Notes were saved under the originalNames `names`, the
\* blobs of the keys in `blobs` being in the bucket
Shelved(k, names, blobs) ==
  /\ regulations = {"r1"}
  /\ branches = [b \in BranchIds |-> [regulation |-> "r1"]]
  /\ subjects = [s \in SubjIds |-> [branch |-> IF s = "s1" THEN "b1" ELSE "b2"]]
  /\ notes = [n \in {NoteIdSeq[i] : i \in 1..k} |->
               [title |-> Title(names[CreatedAt(n)]), regulation |-> "r1",
                branch |-> "b1", subject |-> "s1", fileKey |-> KeySeq[CreatedAt(n)],
                uploadedBy |-> "f1"]]
  /\ faculties = [f \in FacIds |-> [i \in 1..k |-> NoteIdSeq[i]]]
  /\ bucket = blobs
  /\ nextId = k + 1

FetchInit ==
  /\ \E k \in 0..MaxNotes : \E names \in [1..k -> ShelfNames] :
       \E blobs \in SUBSET {KeySeq[i] : i \in 1..k} : Shelved(k, names, blobs)
  /\ session = NoSession
  /\ txn = NoTxn
  /\ pc = "idle"
  /\ req = NoReq
  /\ loc = NoLoc
  /\ res = NoRes
  /\ pre = NoPre
  /\ log = <<>>
  /\ fault = "none"
  /\ other = IdleFrame
  /\ conn = FirstTry

\* archives are built from a store whose Notes may share a title
FetchNext == ArchiveSteps \/ Return

FetchSpec == FetchInit /\ [][FetchNext]_vars

\* the process starts: connectWithRetry() is called once, with or without
\* MONGO_URI, and app.listen lets requests in
ConnectInit ==
  /\ regulations = {"r1"}
  /\ branches = [b \in BranchIds |-> [regulation |-> "r1"]]
  /\ subjects = [s \in SubjIds |-> [branch |-> IF s = "s1" THEN "b1" ELSE "b2"]]
  /\ notes = EmptyMap
  /\ faculties = [f \in FacIds |-> <<>>]
  /\ bucket = {}
  /\ nextId = 1
  /\ session = NoSession
  /\ txn = NoTxn
  /\ pc = "idle"
  /\ req = NoReq
  /\ loc = NoLoc
  /\ res = NoRes
  /\ pre = NoPre
  /\ log = <<>>
  /\ fault = "none"
  /\ other = IdleFrame
  /\ \E uri \in BOOLEAN : conn = connectWithRetry(NoConn(uri))

\* the awaited model operations of save-notes run once the connection is up
ConnectedSave ==
  /\ conn.connected
  /\ SaveNoteSave \/ SavePush

\* the connection is retried while save-notes requests come in
ConnectNext ==
  \/ ConnectResolves \/ ConnectRejects \/ RetryTimerFires
  \/ \E u \in Users, refs \in NoteRefs, n \in 0..MaxFiles : SaveNotes(u, refs, n)
  \/ ConnectedSave
  \/ BufferTimeout
  \/ Return

\* the timer set by setTimeout fires, and a connection attempt settles
ConnectSpec ==
  /\ ConnectInit /\ [][ConnectNext]_vars
  /\ WF_vars(RetryTimerFires)
  /\ WF_vars(ConnectResolves \/ ConnectRejects)

(* ------------------------------ properties ---------------------------- *)

Done(route) == pc = "done" /\ req.route = route

BlobIssued(key) == \E i \in 1..Len(log) : log[i].op = "blob" /\ log[i].key = key

\* the Notes this request removed from the committed collection
RemovedNotes == DOMAIN pre.notes \ DOMAIN notes

\* the Branches of regulation R, and their Subjects, when the request arrived
BranchesOf(R) == {b \in DOMAIN pre.branches : pre.branches[b].regulation = R}
SubjectsOf(Bs) == {s \in DOMAIN pre.subjects : pre.subjects[s].branch \in Bs}

\* C1 - cascade completeness: once DELETE /admin/regulations/R has answered
\* 200, no Branch of R, no Subject of such a Branch and no Note referencing
\* R, such a Branch or such a Subject is left, and a blob delete was issued
\* for the fileKey of every Note removed.
C1_CascadeCompleteness ==
  (Done("DELETE /admin/regulations/:id") /\ res.status = 200) =>
    LET R == req.id
        Bs == BranchesOf(R)
        Ss == SubjectsOf(Bs)
    IN /\ R \notin regulations
       /\ \A b \in DOMAIN branches : branches[b].regulation # R
       /\ \A s \in DOMAIN subjects : subjects[s].branch \notin Bs
       /\ \A n \in DOMAIN notes :
            /\ notes[n].regulation # R
            /\ notes[n].branch \notin Bs
            /\ notes[n].subject \notin Ss
       /\ \A n \in RemovedNotes : BlobIssued(pre.notes[n].fileKey)

\* a regulation with two branches, subjects and notes has been cascade-deleted
C1_Witness ==
  /\ Done("DELETE /admin/regulations/:id") /\ res.status = 200
  /\ Cardinality(BranchesOf(req.id)) = 2
  /\ SubjectsOf(BranchesOf(req.id)) # {}
  /\ Cardinality(RemovedNotes) >= 2

\* C2 - cascade atomicity: when a metadata read or write, or the commit, of
\* a cascade delete fails, the transaction is aborted, the committed
\* collections are what they were when the request arrived, and the caller
\* gets the 500 response.
C2_CascadeAtomicity ==
  (pc = "done" /\ req.route \in CascadeRoutes /\ fault \in {"meta", "commit"}) =>
    /\ session.state = "aborted"
    /\ Committed = [regulations |-> pre.regulations, branches |-> pre.branches,
                    subjects |-> pre.subjects, notes |-> pre.notes]
    /\ res.status = 500

\* C3 - blob deletion follows the commit: a cascade delete issues no blob
\* delete before its transaction has committed.
C3_BlobAfterCommit ==
  req.route \in CascadeRoutes =>
    \A i \in 1..Len(log) :
      log[i].op = "blob" => \E j \in 1..(i - 1) : log[j].op = "commit"

\* C4 - a blob-deletion failure is swallowed: a cascade delete in which a
\* blob delete fails still commits and answers 200.
C4_BlobFailureSwallowed ==
  (pc = "done" /\ req.route \in CascadeRoutes /\ fault = "blob") =>
    /\ session.state = "committed"
    /\ res.status = 200

\* C5 - no premature blob deletion: at every step of a single-note delete, a
\* Note that is still in the collection still has the blob it had when the
\* request arrived.
C5_NoPrematureBlobDelete ==
  req.route \in {"DELETE /notes/:id", "DELETE /admin/notes/:id"} =>
    \A n \in DOMAIN notes :
      notes[n].fileKey \in pre.bucket => notes[n].fileKey \in bucket

\* C6 - the ledger is cleaned on deletion: once a request that removed a Note
\* has answered 200, no Faculty.uploadedNotes holds the id of that Note.
C6_LedgerCleanedOnDelete ==
  (pc = "done" /\ res.status = 200) =>
    \A n \in RemovedNotes : \A f \in DOMAIN faculties : n \notin Range(faculties[f])

\* the Faculty whose ledger a read serves
LedgerOwner ==
  IF req.route = "GET /notes/my-uploads" THEN req.user.id ELSE req.id

\* C7 - ledger reads tolerate dangling ids: every entry that GET
\* /notes/my-uploads or GET /admin/faculty/:id/uploads returns is a Note that
\* exists, and the read of an existing Faculty's ledger answers 200 unless an
\* awaited call rejected.
C7_ReadsFilterDangling ==
  (pc = "done" /\ req.route \in {"GET /notes/my-uploads", "GET /admin/faculty/:id/uploads"}) =>
    /\ \A i \in 1..Len(res.body) : res.body[i] \in DOMAIN notes
    /\ (fault = "none" /\ LedgerOwner \in DOMAIN faculties /\ res.status # 403)
         => res.status = 200

\* a ledger with a dangling id and a live one has been read
C7_Witness ==
  /\ Done("GET /notes/my-uploads") /\ res.status = 200
  /\ res.body # <<>>
  /\ \E n \in Range(faculties[req.user.id]) : n \notin DOMAIN notes

\* C8 - ledger convergence on creation: when a save-notes request is over,
\* every Note it created is in uploadedNotes of its uploader, if that Faculty
\* exists.
C8_LedgerConvergence ==
  Done("POST /notes/save-notes") =>
    \A n \in DOMAIN notes \ DOMAIN pre.notes :
      notes[n].uploadedBy \in DOMAIN faculties
        => n \in Range(faculties[notes[n].uploadedBy])

\* the record a cascade delete is aimed at was there when the request arrived
RootPresent ==
  CASE req.route = "DELETE /admin/regulations/:id" -> req.id \in pre.regulations
    [] req.route = "DELETE /admin/branches/:id" -> req.id \in DOMAIN pre.branches
    [] req.route = "DELETE /admin/subjects/:id" -> req.id \in DOMAIN pre.subjects
    [] OTHER -> FALSE

\* C9 - idempotent re-delete: a cascade delete aimed at a record that is
\* already gone leaves every collection, every ledger and the bucket as they
\* were, and answers 404 unless an awaited call rejected.
C9_IdempotentReDelete ==
  (pc = "done" /\ req.route \in CascadeRoutes /\ adminMiddleware(req.user)
     /\ isValid(req.id) /\ ~RootPresent) =>
    /\ Snapshot = pre
    /\ fault = "none" => res.status = 404

\* r1, cascade-deleted earlier, is deleted again while Notes still name it
C9_Witness ==
  /\ Done("DELETE /admin/regulations/:id") /\ res.status = 404
  /\ req.id = "r1"
  /\ \E n \in DOMAIN notes : notes[n].regulation = "r1"

Rank(op) ==
  CASE op = "note" -> 1 [] op = "subject" -> 2 [] op = "branch" -> 3
    [] op = "regulation" -> 4 [] OTHER -> 0

\* C10 - deletion order in a Regulation cascade: every Note deletion comes
\* before every Subject deletion, every Subject deletion before every Branch
\* deletion, and the Regulation is deleted last.
C10_DeletionOrder ==
  req.route = "DELETE /admin/regulations/:id" =>
    \A i, j \in 1..Len(log) :
      (i < j /\ Rank(log[i].op) > 0 /\ Rank(log[j].op) > 0)
        => Rank(log[i].op) <= Rank(log[j].op)

\* C16 - Note deletion is restricted to the owner or an administrator: a
\* request by a caller who is neither an admin nor the uploader of a Note
\* leaves that Note, its blob and its uploader's ledger as they were.
C16_OwnerOrAdminOnly ==
  (req.route # "" /\ req.user.role # "admin") =>
    \A n \in DOMAIN pre.notes :
      pre.notes[n].uploadedBy # req.user.id =>
        /\ n \in DOMAIN notes
        /\ pre.notes[n].fileKey \in pre.bucket => pre.notes[n].fileKey \in bucket
        /\ pre.notes[n].uploadedBy \in DOMAIN pre.faculties =>
             faculties = pre.faculties

\* C17 - exactly one structured response: a cascade-delete handler that has
\* terminated has sent a 200, 400, 404 or 500 response.
C17_ExactlyOneResponse ==
  (pc = "done" /\ req.route \in CascadeRoutes /\ adminMiddleware(req.user)) =>
    res.status \in {200, 400, 404, 500}

\* C18 - faculty deletion does not cascade: DELETE /admin/faculty/:id leaves
\* every Regulation, Branch, Subject and Note record and every blob as they
\* were, and removes the Faculty record of :id and nothing else.
C18_FacultyDeleteNoCascade ==
  Done("DELETE /admin/faculty/:id") =>
    /\ Committed = [regulations |-> pre.regulations, branches |-> pre.branches,
                    subjects |-> pre.subjects, notes |-> pre.notes]
    /\ bucket = pre.bucket
    /\ faculties = IF res.status = 200 THEN Remove(pre.faculties, {req.id})
                   ELSE pre.faculties

\* a Faculty with an uploaded Note, whose blob is in the bucket, has been deleted
C18_Witness ==
  /\ Done("DELETE /admin/faculty/:id") /\ res.status = 200
  /\ req.id \in DOMAIN pre.faculties
  /\ \E n \in DOMAIN notes :
       notes[n].uploadedBy = req.id /\ notes[n].fileKey \in bucket

\* C19 - the transaction scope is always closed: a cascade delete that has
\* sent its response has committed or aborted its transaction and ended its
\* session.
C19_TransactionClosed ==
  (pc = "done" /\ req.route \in CascadeRoutes /\ res.status \in {200, 400, 404, 500}) =>
    /\ session.state \in {"committed", "aborted"}
    /\ session.ended

\* C11 - no orphans after a Branch delete: once DELETE /admin/branches/B has
\* answered 200, no Subject with branch = B is left, no Note with branch = B
\* is left, no Note is left whose subject is a Subject this call deleted, and
\* no blob of a removed Note is in the bucket.
C11_NoOrphansAfterBranchDelete ==
  (Done("DELETE /admin/branches/:id") /\ res.status = 200) =>
    LET B == req.id
        Ss == DOMAIN pre.subjects \ DOMAIN subjects
    IN /\ \A s \in DOMAIN subjects : subjects[s].branch # B
       /\ \A n \in DOMAIN notes : notes[n].branch # B /\ notes[n].subject \notin Ss
       /\ \A n \in RemovedNotes : pre.notes[n].fileKey \notin bucket

\* the Notes the noteIds of a download-zip request resolve to
Resolved == req.body.noteIds.ids \cap DOMAIN notes

\* C12 - archive all-or-nothing: when the retrieval of the blob of a resolved
\* Note fails, be it that a call rejects or that the store answers that the
\* blob is absent, POST /notes/download-zip answers 500 and returns no archive.
C12_ArchiveAllOrNothing ==
  (Done("POST /notes/download-zip") /\ fault \in {"none", "fetch"}
     /\ (\A id \in req.body.noteIds.ids : isValid(id))
     /\ (fault = "fetch" \/ \E n \in Resolved : notes[n].fileKey \notin bucket)) =>
    res.status = 500

C14_ArchiveRoundTrip ==
  (Done("POST /notes/download-zip") /\ res.status = 200
     /\ (\A m, n \in Resolved : m # n => notes[m].title # notes[n].title)
     /\ (\A n \in Resolved : notes[n].fileKey = "" \/ notes[n].fileKey \in bucket)) =>
    LET WithFile == {n \in Resolved : notes[n].fileKey # ""}
        NoteOf(name) == CHOOSE n \in WithFile : Append(notes[n].title, "pdf") = name
    IN res.body = [name \in {Append(notes[n].title, "pdf") : n \in WithFile} |->
                     <<"bytes", notes[NoteOf(name)].fileKey>>]

\* an archive of two Notes with distinct titles and retrievable blobs was returned
C14_Witness ==
  /\ Done("POST /notes/download-zip") /\ res.status = 200
  /\ Cardinality(Resolved) >= 2
  /\ \A m, n \in Resolved : m # n => notes[m].title # notes[n].title
  /\ \A n \in Resolved : notes[n].fileKey \in bucket

\* the metadata collections of a snapshot
Store(p) ==
  [regulations |-> p.regulations, branches |-> p.branches, subjects |-> p.subjects,
   notes |-> p.notes]

Size(m) ==
  Cardinality(m.regulations) + Cardinality(DOMAIN m.branches)
    + Cardinality(DOMAIN m.subjects) + Cardinality(DOMAIN m.notes)

\* the store when the first of the two overlapping requests arrived (records
\* are only ever removed while cascade deletes run)
FirstStore ==
  IF Size(Store(pre)) >= Size(Store(other.pre)) THEN Store(pre) ELSE Store(other.pre)

\* the record a cascade delete is aimed at is in the store m
HasRoot(m, r) ==
  CASE r.route = "DELETE /admin/regulations/:id" -> r.id \in m.regulations
    [] r.route = "DELETE /admin/branches/:id" -> r.id \in DOMAIN m.branches
    [] r.route = "DELETE /admin/subjects/:id" -> r.id \in DOMAIN m.subjects
    [] OTHER -> FALSE

\* the store after the cascade delete r has run alone on the store m
CascadeOf(m, r) ==
  CASE r.route = "DELETE /admin/regulations/:id" ->
         LET Bs == BranchFind(m.branches, r.id)
             Ss == {x \in DOMAIN m.subjects : m.subjects[x].branch \in Bs}
         IN [regulations |-> m.regulations \ {r.id},
             branches |-> Remove(m.branches, Bs),
             subjects |-> Remove(m.subjects, Ss),
             notes |-> Remove(m.notes,
                              {n \in DOMAIN m.notes :
                                 \/ m.notes[n].regulation = r.id
                                 \/ m.notes[n].branch \in Bs
                                 \/ m.notes[n].subject \in Ss})]
    [] r.route = "DELETE /admin/branches/:id" ->
         [m EXCEPT !.branches = Remove(@, {r.id}),
                   !.subjects = Remove(@, SubjectFind(m.subjects, r.id)),
                   !.notes = NoteDeleteMany(@, "branch", r.id)]
    [] r.route = "DELETE /admin/subjects/:id" ->
         [m EXCEPT !.subjects = Remove(@, {r.id}),
                   !.notes = NoteDeleteMany(@, "subject", r.id)]
    [] OTHER -> m

\* what the finished handler f has done to the store m if it ran alone on it
Effect(m, f) == IF f.res.status = 200 THEN CascadeOf(m, f.req) ELSE m

\* the answer of the finished handler f is the one it gives on the store m
Agrees(m, f) ==
  /\ f.res.status = 200 => HasRoot(m, f.req)
  /\ f.res.status = 404 => ~HasRoot(m, f.req)

\* the committed collections are what f and then g leave of the store m
Serial(m, f, g) ==
  /\ Agrees(m, f)
  /\ Agrees(Effect(m, f), g)
  /\ Committed = Effect(Effect(m, f), g)

\* f deletes a Regulation and g one of its Branches, or f deletes a Branch
\* and g one of its Subjects
Nested(m, f, g) ==
  \/ /\ f.req.route = "DELETE /admin/regulations/:id"
     /\ g.req.route = "DELETE /admin/branches/:id"
     /\ f.req.id \in m.regulations
     /\ g.req.id \in DOMAIN m.branches
     /\ m.branches[g.req.id].regulation = f.req.id
  \/ /\ f.req.route = "DELETE /admin/branches/:id"
     /\ g.req.route = "DELETE /admin/subjects/:id"
     /\ f.req.id \in DOMAIN m.branches
     /\ g.req.id \in DOMAIN m.subjects
     /\ m.subjects[g.req.id].branch = f.req.id

\* two overlapping cascade deletes of nested subtrees have both finished
BothFinished ==
  /\ pc = "done" /\ other.pc = "done"
  /\ Nested(FirstStore, Frame, other) \/ Nested(FirstStore, other, Frame)

EndsStructured == res.status \in {200, 404, 500} /\ other.res.status \in {200, 404, 500}

SeriallyEquivalent ==
  Serial(FirstStore, Frame, other) \/ Serial(FirstStore, other, Frame)

\* C15 - overlapping cascade deletes do not corrupt state: when a cascade
\* delete of a Regulation and a cascade delete of one of its Branches (or of
\* a Branch and of one of its Subjects) have run interleaved and both have
\* finished, each has answered 200, 404 or 500 and the committed collections
\* are what the two deletes leave when run one after the other in some order.
C15_OverlappingDeletesSerializable ==
  BothFinished => EndsStructured /\ SeriallyEquivalent
\* the field of a Note that refers to the record a cascade delete removes
RootField(route) ==
  CASE route = "DELETE /admin/regulations/:id" -> "regulation"
    [] route = "DELETE /admin/branches/:id" -> "branch"
    [] OTHER -> "subject"

\* the finished handler d is a successful cascade delete and the finished
\* handler s a save-notes that created a Note referring to the record d removed
DeleteRacedSave(d, s) ==
  /\ d.pc = "done" /\ s.pc = "done"
  /\ d.req.route \in CascadeRoutes /\ d.res.status = 200
  /\ s.req.route = "POST /notes/save-notes" /\ s.res.status = 201
  /\ s.req.body[RootField(d.req.route)] = d.req.id

\* C20 - a cascade delete racing with save-notes leaves no orphan: when a
\* successful cascade delete and a save-notes that created a Note referring
\* to the deleted record have run interleaved and both have finished, no Note
\* is left whose subject, branch or regulation is the deleted record.
C20_NoOrphanAfterRacingSave ==
  \A d, s \in {Frame, other} :
    DeleteRacedSave(d, s) =>
      \A n \in DOMAIN notes : notes[n][RootField(d.req.route)] # d.req.id
\* the Note ids of the first k uploadedFiles of the request, in order
SavedIds(k) == [i \in 1..k |-> req.body.uploadedFiles[i].id]

\* the save or the ledger update of file k of the request is the call that
\* rejected: the files before it have a Note, and file k has one exactly when
\* its save went through
FailedAt(k) ==
  /\ Done("POST /notes/save-notes")
  /\ fault \in {"save", "ledger"}
  /\ k \in 1..Len(req.body.uploadedFiles)
  /\ \A i \in 1..(k - 1) : SavedIds(k)[i] \in DOMAIN notes
  /\ SavedIds(k)[k] \in DOMAIN notes <=> fault = "ledger"
  /\ \A i \in (k + 1)..Len(req.body.uploadedFiles) :
       req.body.uploadedFiles[i].id \notin DOMAIN notes

\* C23 - save-notes is not all-or-nothing: when the Note save or the ledger
\* update of file k rejects, the Notes of the files before k stay saved and
\* their ids are appended to the ledger of the caller (if the caller has a
\* Faculty record), no Note exists for the files after k, and the response is
\* a 500 that lists no Note.
C23_SaveNotesPartial ==
  (Done("POST /notes/save-notes") /\ fault \in {"save", "ledger"}) =>
    \E k \in 1..Len(req.body.uploadedFiles) :
      /\ FailedAt(k)
      /\ \A i \in 1..(k - 1) :
           notes[SavedIds(k)[i]].uploadedBy = req.user.id
      /\ req.user.id \in DOMAIN faculties =>
           faculties[req.user.id] = pre.faculties[req.user.id] \o SavedIds(k - 1)
      /\ DOMAIN notes \ DOMAIN pre.notes \subseteq Range(SavedIds(k))
      /\ res = [status |-> 500, body |-> <<>>]

\* the save of the second of two files has rejected after the first was saved
\* and entered in the ledger
C23_Witness ==
  /\ FailedAt(2) /\ fault = "save"
  /\ req.user.id \in DOMAIN faculties
  /\ SavedIds(1)[1] \in Range(faculties[req.user.id])
  /\ SavedIds(1)[1] \in DOMAIN notes
  /\ res.status = 500
\* at most one attempt or armed timer, none once connected, and nothing at
\* all without MONGO_URI
OneRetryChain ==
  /\ conn.pending + conn.timers <= 1
  /\ conn.connected => conn.pending + conn.timers = 0
  /\ ~conn.uri => conn = NoConn(FALSE)

\* a step of the connection: nothing after a success, one timer armed by a
\* failed attempt, and a new attempt made only by the timer that fires
RetryStep ==
  /\ conn.connected => conn' = conn
  /\ (conn'.pending < conn.pending /\ ~conn'.connected) => conn'.timers = conn.timers + 1
  /\ conn'.attempts # conn.attempts =>
       /\ conn'.attempts = conn.attempts + 1
       /\ conn.timers = 1 /\ conn'.timers = 0 /\ conn'.pending = 1

\* C22 - database connection retry: with MONGO_URI defined every failed
\* attempt arms exactly one retry timer and the timer makes the next attempt,
\* so that attempts go on until the first success (or the bound on attempts);
\* at most one attempt or armed timer exists at any time and nothing is
\* attempted after a success; without MONGO_URI nothing is ever attempted.
C22_ConnectionRetry ==
  /\ []OneRetryChain
  /\ [][RetryStep]_vars
  /\ (conn.uri /\ conn.timers = 1 /\ conn.attempts < MaxAttempts) ~> (conn.pending = 1)
  /\ conn.uri ~> (conn.connected \/ conn.attempts = MaxAttempts)

\* the connection is up after a failed attempt and its retry
C22_Witness ==
  /\ conn.uri /\ conn.connected
  /\ conn.attempts >= 2
  /\ conn.pending = 0 /\ conn.timers = 0
\* the Note ids of the fetches that have ended, in the order they ended
FetchOrder ==
  LET fetched == SelectSeq(log, LAMBDA e : e.op = "fetch")
  IN [i \in 1..Len(fetched) |-> fetched[i].key]

\* C21 - archive content does not depend on fetch interleaving: when the
\* fetches of POST /notes/download-zip have all ended, in whatever order,
\* filesData holds the results in the order of the Note query result, and the
\* archive returned is the one built from them in that order: the names, the
\* contents, the order of the zip.file calls and the Note that wins a shared
\* title are those of the query order.
C21_ArchiveIndependentOfFetchOrder ==
  /\ [](pc = "zip_generate" => loc.files = FilesData(notes, bucket, loc.noteQ))
  /\ [][(pc = "zip_generate" /\ res'.status = 200) =>
          res'.body = ZipAll(EmptyMap, FilesData(notes, bucket, loc.noteQ))]_vars

\* two Notes that share a title and have different blobs were fetched, the
\* one that comes second in the query result ending first
C21_Witness ==
  /\ pc = "zip_generate"
  /\ Len(loc.noteQ) = 2
  /\ FetchOrder = <<loc.noteQ[2], loc.noteQ[1]>>
  /\ notes[loc.noteQ[1]].title = notes[loc.noteQ[2]].title
  /\ notes[loc.noteQ[1]].fileKey \in bucket
  /\ notes[loc.noteQ[2]].fileKey \in bucket
====
